---- MODULE Spec2Model ----
(***************************************************************************)
(* A model of pdf_sorter.py: the knowledge store (load, ensure_defaults,   *)
(* record, save), the folder reconciler (_sync_folder_structure) and the   *)
(* file placement engine (sort_pdfs).                                      *)
(*                                                                         *)
(* Text (file names, folder names, category names, tokens) is a tuple of   *)
(* one-character strings, so that the string functions of the program are  *)
(* computed character by character.                                        *)
(***************************************************************************)
EXTENDS Integers, Sequences, FiniteSets, TLC

\* ------------------------------------------------------------------ text
Digits == {"0","1","2","3","4","5","6","7","8","9"}

IsDigit(c) == c \in Digits

\* the white space characters that occur (str.isspace, \s)
Spaces == {" ", "\t", "\n"}
IsSpace(c) == c \in Spaces

\* str.lower, one character
LowerChar(c) ==
  CASE c = "A" -> "a" [] c = "B" -> "b" [] c = "C" -> "c" [] c = "D" -> "d"
    [] c = "E" -> "e" [] c = "F" -> "f" [] c = "G" -> "g" [] c = "H" -> "h"
    [] c = "I" -> "i" [] c = "J" -> "j" [] c = "K" -> "k" [] c = "L" -> "l"
    [] c = "M" -> "m" [] c = "N" -> "n" [] c = "O" -> "o" [] c = "P" -> "p"
    [] c = "Q" -> "q" [] c = "R" -> "r" [] c = "S" -> "s" [] c = "T" -> "t"
    [] c = "U" -> "u" [] c = "V" -> "v" [] c = "W" -> "w" [] c = "X" -> "x"
    [] c = "Y" -> "y" [] c = "Z" -> "z" [] OTHER -> c

\* str.lower
Lower(s) == [i \in 1..Len(s) |-> LowerChar(s[i])]

\* s[i:] and s[:i] with Python's 0-based i
From(s, i) == SubSeq(s, i + 1, Len(s))
Upto(s, i) == SubSeq(s, 1, i)

\* Python's "needle in hay" for strings (the empty needle is in every string)
Contains(hay, needle) ==
  \E i \in 0..(Len(hay) - Len(needle)) :
     SubSeq(hay, i + 1, i + Len(needle)) = needle

StartsWith(s, p) == Len(p) <= Len(s) /\ Upto(s, Len(p)) = p
EndsWith(s, p) == Len(p) <= Len(s) /\ From(s, Len(s) - Len(p)) = p

\* the concatenation of a sequence of strings with a separator (str.join)
RECURSIVE Join(_, _)
Join(parts, sep) ==
  IF parts = << >> THEN << >>
  ELSE IF Len(parts) = 1 THEN parts[1]
  ELSE parts[1] \o sep \o Join(Tail(parts), sep)

\* re.split on a class seps of characters: the pieces between separators, empty
\* pieces included
RECURSIVE SplitOn(_, _, _)
SplitOn(s, seps, cur) ==
  IF s = << >> THEN <<cur>>
  ELSE IF s[1] \in seps THEN <<cur>> \o SplitOn(Tail(s), seps, << >>)
  ELSE SplitOn(Tail(s), seps, Append(cur, s[1]))

\* str.split() without argument: the maximal runs of non-space characters
SplitWords(s) == SelectSeq(SplitOn(s, Spaces, << >>), LAMBDA p : p # << >>)

\* str.strip()
RECURSIVE LStrip(_)
LStrip(s) == IF s # << >> /\ IsSpace(s[1]) THEN LStrip(Tail(s)) ELSE s
RECURSIVE RStrip(_)
RStrip(s) ==
  IF s # << >> /\ IsSpace(s[Len(s)]) THEN RStrip(Upto(s, Len(s) - 1)) ELSE s
Strip(s) == RStrip(LStrip(s))

\* str.replace(a, b) for one-character a and b
ReplaceChar(s, a, b) == [i \in 1..Len(s) |-> IF s[i] = a THEN b ELSE s[i]]

\* the 0-based position of the last "." of s, or -1 (str.rfind)
RFindDot(s) ==
  IF \E i \in 1..Len(s) : s[i] = "."
  THEN (CHOOSE i \in 1..Len(s) :
          s[i] = "." /\ \A j \in (i + 1)..Len(s) : s[j] # ".") - 1
  ELSE -1

\* pathlib: PurePath.suffix and PurePath.stem of a file name
PathSuffix(name) ==
  LET i == RFindDot(name)
  IN IF 0 < i /\ i < Len(name) - 1 THEN From(name, i) ELSE << >>
PathStem(name) ==
  LET i == RFindDot(name)
  IN IF 0 < i /\ i < Len(name) - 1 THEN Upto(name, i) ELSE name

\* os.path.splitext: the extension starts at the last dot, unless only dots
\* precede it
SplitExt(name) ==
  LET i == RFindDot(name)
  IN IF i >= 0 /\ \E j \in 1..i : name[j] # "."
     THEN <<Upto(name, i), From(name, i)>>
     ELSE <<name, << >> >>

\* str(i) for 0 <= i <= 99
DigitChar(d) ==
  CASE d = 0 -> "0" [] d = 1 -> "1" [] d = 2 -> "2" [] d = 3 -> "3"
    [] d = 4 -> "4" [] d = 5 -> "5" [] d = 6 -> "6" [] d = 7 -> "7"
    [] d = 8 -> "8" [] d = 9 -> "9"
IntToStr(i) ==
  IF i < 10 THEN <<DigitChar(i)>> ELSE <<DigitChar(i \div 10), DigitChar(i % 10)>>

\* ------------------------------------------------------- knowledge store
\* An ordered dict (Python dict, insertion order) is a sequence of entries
\* [name, data] with pairwise different names.
Keys(d) == {d[i].name : i \in DOMAIN d}
Has(d, k) == k \in Keys(d)
Get(d, k) == d[CHOOSE i \in DOMAIN d : d[i].name = k].data

\* d[k] = v: replaces the value in place, or appends a new key
Put(d, k, v) ==
  IF Has(d, k)
  THEN [i \in DOMAIN d |-> IF d[i].name = k THEN [name |-> k, data |-> v] ELSE d[i]]
  ELSE Append(d, [name |-> k, data |-> v])

\* del d[k]
Del(d, k) == SelectSeq(d, LAMBDA e : e.name # k)

DefaultCreatedAt == "2024-01-01T00:00:00"

\* The initial value of the class attribute DEFAULT_CATEGORIES.
DefaultCategoriesTable ==
  << [name |-> <<"0","1"," ","A","n","t","r","a","g">>, data |->
        [document_types |-> <<<<"a","n","t","r","a","g">>, <<"a","p","p","l","i","c","a","t","i","o","n">>, <<"b","e","w","e","r","b","u","n","g">>,
                              <<"f","o","r","m","u","l","a","r">>, <<"f","o","r","m">>>>,
         created_at |-> DefaultCreatedAt]],
     [name |-> <<"0","2"," ","B","e","s","c","h","e","i","d">>, data |->
        [document_types |-> <<<<"b","e","s","c","h","e","i","d">>, <<"d","e","c","i","s","i","o","n">>, <<"e","n","t","s","c","h","e","i","d","u","n","g">>,
                              <<"b","e","s","c","h","l","u","s","s">>, <<"n","o","t","i","c","e">>>>,
         created_at |-> DefaultCreatedAt]],
     [name |-> <<"0","3"," ","V","e","r","t","r","a","g">>, data |->
        [document_types |-> <<<<"v","e","r","t","r","a","g">>, <<"c","o","n","t","r","a","c","t">>, <<"v","e","r","e","i","n","b","a","r","u","n","g">>,
                              <<"a","g","r","e","e","m","e","n","t">>>>,
         created_at |-> DefaultCreatedAt]],
     [name |-> <<"0","4"," ","R","e","c","h","n","u","n","g">>, data |->
        [document_types |-> <<<<"r","e","c","h","n","u","n","g">>, <<"i","n","v","o","i","c","e">>, <<"b","i","l","l">>, <<"f","a","k","t","u","r","a">>,
                              <<"b","e","l","e","g">>, <<"q","u","i","t","t","u","n","g">>>>,
         created_at |-> DefaultCreatedAt]],
     [name |-> <<"0","5"," ","I","n","f","o","r","m","a","t","i","o","n">>, data |->
        [document_types |-> <<<<"i","n","f","o","r","m","a","t","i","o","n">>, <<"i","n","f","o">>, <<"i","n","f","o","b","l","a","t","t">>,
                              <<"m","i","t","t","e","i","l","u","n","g">>, <<"b","e","n","a","c","h","r","i","c","h","t","i","g","u","n","g">>>>,
         created_at |-> DefaultCreatedAt]] >>

DefaultNames == Keys(DefaultCategoriesTable)

\* migration_map of _ensure_default_categories, in dict order
migration_map ==
  << <<<<"0","1"," ","V","e","r","t","r","a","g">>, <<"0","3"," ","V","e","r","t","r","a","g">>>>,
     <<<<"0","2"," ","I","n","f","o","r","m","a","t","i","o","n">>, <<"0","5"," ","I","n","f","o","r","m","a","t","i","o","n">>>>,
     <<<<"0","3"," ","R","e","c","h","n","u","n","g">>, <<"0","4"," ","R","e","c","h","n","u","n","g">>>> >>

\* json.load of the file's text: the members of the top-level object are put
\* into a dict one after the other, so a repeated key keeps its first
\* position and its last value.
RECURSIVE ParseMembers(_, _)
ParseMembers(members, d) ==
  IF members = << >> THEN d
  ELSE ParseMembers(Tail(members), Put(d, members[1].name, members[1].data))

\* json.dump of the store: one member per key, in dict order
DumpMembers(d) == d

\* what json.load returns for a text that is JSON and not an object (a list,
\* a number, a string, null): a value that is no dict
NotADict == <<[name |-> << >>, data |-> [not_a_dict |-> TRUE]]>>

\* open(..., encoding='utf-8') and json.load raise UnicodeDecodeError for
\* bytes that are not UTF-8; only json.JSONDecodeError is caught
LoadRaises(file) == file.kind = "undecodable"

\* _load_learned_categories: a missing file and a JSONDecodeError give {}
LoadLearnedCategories(file) ==
  IF file.kind = "object" THEN ParseMembers(file.members, << >>)
  ELSE IF file.kind = "other" THEN NotADict
  ELSE << >>

\* _ensure_default_categories raises TypeError when the loaded value is no
\* dict: it cannot be assigned to by key
EnsureRaises(d) == d = NotADict

\* _save_learned_categories: the file is rewritten with the whole store
SaveLearnedCategories(d) == [kind |-> "object", members |-> DumpMembers(d)]

\* the migration loop of _ensure_default_categories
\* a migration test that forgets to look for the new name
ShouldMigrate_IgnoresNew(d, old_cat, new_cat) == Has(d, old_cat)

\* if old_cat in self.learned_categories and new_cat not in ...
ShouldMigrate(d, old_cat, new_cat) == Has(d, old_cat) /\ ~Has(d, new_cat)

RECURSIVE MigrateOld(_, _)
MigrateOld(d, pairs) ==
  IF pairs = << >> THEN d
  ELSE LET old_cat == pairs[1][1]
           new_cat == pairs[1][2]
       IN IF ShouldMigrate(d, old_cat, new_cat)
          THEN MigrateOld(Del(Put(d, new_cat, Get(d, old_cat)), old_cat), Tail(pairs))
          ELSE MigrateOld(d, Tail(pairs))

\* the loop over DEFAULT_CATEGORIES of _ensure_default_categories; the result
\* is the store and the set of keys that received data.copy(), a shallow copy
\* whose 'document_types' is the list object of the class attribute
RECURSIVE AddDefaults(_, _, _)
AddDefaults(d, sh, defaults) ==
  IF defaults = << >> THEN [store |-> d, shared |-> sh]
  ELSE LET category == defaults[1].name
           underscore_version == ReplaceChar(category, " ", "_")
       IN IF Has(d, category) THEN AddDefaults(d, sh, Tail(defaults))
          ELSE IF Has(d, underscore_version)
          THEN AddDefaults(Del(Put(d, category, Get(d, underscore_version)),
                               underscore_version), sh, Tail(defaults))
          ELSE AddDefaults(Put(d, category, defaults[1].data),
                           sh \cup {category}, Tail(defaults))

EnsureDefaultCategories(d, defaults) ==
  AddDefaults(MigrateOld(d, migration_map), {}, defaults)

\* datetime.now().isoformat(): a time stamp later than every stored one
Now == "now"

\* [t.lower() for t in document_types]
LowerAll(types) == [i \in DOMAIN types |-> Lower(types[i])]
InSeq(x, s) == \E i \in DOMAIN s : s[i] = x

\* a membership test that compares the types as they are written
NotKnown_CaseSensitive(types, doc_type) == ~InSeq(doc_type, types)

\* the test of _update_category_knowledge: doc_type is not yet known
NotKnown(types, doc_type) == ~InSeq(Lower(doc_type), LowerAll(types))

\* data['document_types'] raises KeyError for a record without that key
HasTypes(data) == "document_types" \in DOMAIN data

\* _update_category_knowledge raises KeyError: the category is in the store
\* and its record has no 'document_types'
UpdateRaises(d, category) == Has(d, category) /\ ~HasTypes(Get(d, category))

\* a record that stamps the category again whenever it adds a type
UpdateStore_StampsAgain(d, category, doc_type) ==
  LET d1 == IF Has(d, category) THEN d
            ELSE Put(d, category, [document_types |-> << >>, created_at |-> Now])
      rec == Get(d1, category)
  IN IF NotKnown(rec.document_types, doc_type)
     THEN Put(d1, category,
              [document_types |-> Append(rec.document_types, doc_type),
               created_at |-> Now])
     ELSE d1

\* _update_category_knowledge on the store: a missing category is created,
\* an unknown document type is appended
UpdateStore(d, category, doc_type) ==
  LET d1 == IF Has(d, category) THEN d
            ELSE Put(d, category, [document_types |-> << >>, created_at |-> Now])
      rec == Get(d1, category)
  IN IF NotKnown(rec.document_types, doc_type)
     THEN Put(d1, category,
              [rec EXCEPT !.document_types = Append(@, doc_type)])
     ELSE d1

\* a record that saves a new category but not a new type of an old one
UpdateSaves_OnlyNewCategory(d, category, doc_type) == ~Has(d, category)

\* whether _update_category_knowledge reaches its _save_learned_categories
UpdateSaves(d, category, doc_type) ==
  ~Has(d, category) \/ NotKnown(Get(d, category).document_types, doc_type)

\* the append reaches the class attribute when the list is the shared object
UpdateDefaults(defaults, sh, d, category, doc_type) ==
  IF category \in sh /\ UpdateSaves(d, category, doc_type)
  THEN Put(defaults, category,
           [Get(defaults, category) EXCEPT !.document_types = Append(@, doc_type)])
  ELSE defaults

\* ----------------------------------------------------------- file system
\* A path is the sequence of names below the source directory; << >> is the
\* source directory itself.  A file system value f has
\*   f.dirs        the set of directories (paths),
\*   f.files       the regular files, a function from path to content,
\*   f.readonly    directories without write permission (no entry can be
\*                 created, removed or renamed in them),
\*   f.unreadable  directories without read permission (cannot be listed).
Root == << >>
Parent(p) == Upto(p, Len(p) - 1)
BaseName(p) == p[Len(p)]

IsDir(f, p) == p \in f.dirs
IsFile(f, p) == p \in DOMAIN f.files
Exists(f, p) == IsDir(f, p) \/ IsFile(f, p)
Writable(f, d) == d \notin f.readonly

IsUnder(q, p) == Len(q) > Len(p) /\ Upto(q, Len(p)) = p
Children(f, p) ==
  {q \in f.dirs \cup DOMAIN f.files : Len(q) = Len(p) + 1 /\ IsUnder(q, p)}

\* the order in which a directory listing enumerates a set of entries
RECURSIVE ListingOrder(_)
ListingOrder(S) ==
  IF S = {} THEN << >>
  ELSE LET x == CHOOSE x \in S : TRUE IN <<x>> \o ListingOrder(S \ {x})

\* restriction of a function
Restrict(g, D) == [x \in D |-> g[x]]

\* Path.mkdir(exist_ok=...): the new file system and the exception raised
Mkdir(f, p, exist_ok) ==
  IF Exists(f, p)
  THEN [fs |-> f, err |-> IF exist_ok /\ IsDir(f, p) THEN "ok" ELSE "FileExistsError"]
  ELSE IF ~IsDir(f, Parent(p)) THEN [fs |-> f, err |-> "FileNotFoundError"]
  ELSE IF ~Writable(f, Parent(p)) THEN [fs |-> f, err |-> "PermissionError"]
  ELSE [fs |-> [f EXCEPT !.dirs = @ \cup {p}], err |-> "ok"]

\* Path.rmdir(): only an empty directory in a writable parent is removed
Rmdir(f, p) ==
  IF IsDir(f, p) /\ Children(f, p) = {} /\ Writable(f, Parent(p))
  THEN [fs |-> [f EXCEPT !.dirs = @ \ {p}, !.readonly = @ \ {p},
                         !.unreadable = @ \ {p}],
        err |-> "ok"]
  ELSE [fs |-> f, err |-> "OSError"]

\* the path q of the tree at src, seen from dst
Rebase(q, src, dst) == dst \o From(q, Len(src))

TreeDirs(f, src) == {q \in f.dirs : q = src \/ IsUnder(q, src)}
TreeFiles(f, src) == {q \in DOMAIN f.files : q = src \/ IsUnder(q, src)}

\* the tree at src added at dst (a regular file at dst is overwritten)
CopyTree(f, src, dst) ==
  LET newDirs == {Rebase(q, src, dst) : q \in TreeDirs(f, src)}
      newFiles == {Rebase(q, src, dst) : q \in TreeFiles(f, src)}
  IN [f EXCEPT
        !.dirs = @ \cup newDirs,
        !.files = [q \in DOMAIN f.files \cup newFiles |->
                     IF q \in newFiles
                     THEN f.files[CHOOSE o \in TreeFiles(f, src) : Rebase(o, src, dst) = q]
                     ELSE f.files[q]]]

\* the tree at src removed, the directory src itself too when withTop
RemoveTree(f, src, withTop) ==
  LET goneDirs == {q \in TreeDirs(f, src) : withTop \/ q # src}
  IN [f EXCEPT
        !.dirs = @ \ goneDirs,
        !.files = Restrict(@, DOMAIN @ \ TreeFiles(f, src)),
        !.readonly = @ \ goneDirs,
        !.unreadable = @ \ goneDirs]

\* os.rename(src, dst) succeeds
CanRename(f, src, dst) ==
  /\ Exists(f, src)
  /\ IsDir(f, Parent(dst))
  /\ Writable(f, Parent(src)) /\ Writable(f, Parent(dst))
  /\ IsFile(f, src) => ~IsDir(f, dst)
  /\ IsDir(f, src) => ~Exists(f, dst)

\* shutil.move(src, dst): a move into dst when dst is a directory; os.rename;
\* when os.rename fails, a copy followed by the removal of the source, each
\* of which can fail on its own.  ok is FALSE when an exception is raised.
ShutilMove(f, src, dst) ==
  LET real_dst == IF IsDir(f, dst) THEN Append(dst, BaseName(src)) ELSE dst
      canCreate == \/ IsFile(f, real_dst)
                   \/ /\ ~Exists(f, real_dst)
                      /\ IsDir(f, Parent(real_dst))
                      /\ Writable(f, Parent(real_dst))
  IN IF IsDir(f, dst) /\ Exists(f, real_dst) THEN [fs |-> f, ok |-> FALSE]
     ELSE IF src = real_dst /\ Exists(f, src) THEN [fs |-> f, ok |-> TRUE]
     ELSE IF CanRename(f, src, real_dst)
     THEN [fs |-> RemoveTree(CopyTree(f, src, real_dst), src, TRUE), ok |-> TRUE]
     ELSE IF IsDir(f, src)
     THEN \* copytree, then rmtree
          IF Exists(f, real_dst) \/ ~canCreate THEN [fs |-> f, ok |-> FALSE]
          ELSE LET copied == CopyTree(f, src, real_dst)
               IN IF Writable(f, Parent(src))
                  THEN [fs |-> RemoveTree(copied, src, TRUE), ok |-> TRUE]
                  ELSE [fs |-> RemoveTree(copied, src, FALSE), ok |-> FALSE]
     ELSE IF IsFile(f, src)
     THEN \* copy2, then os.unlink
          IF ~canCreate THEN [fs |-> f, ok |-> FALSE]
          ELSE LET copied == CopyTree(f, src, real_dst)
               IN IF Writable(f, Parent(src))
                  THEN [fs |-> RemoveTree(copied, src, TRUE), ok |-> TRUE]
                  ELSE [fs |-> copied, ok |-> FALSE]
     ELSE [fs |-> f, ok |-> FALSE]

\* ------------------------------------------------------ folder reconciler
\* canonical_folders of _sync_folder_structure, in dict order
canonical_folders ==
  << <<<<"a","n","t","r","a","g">>, <<"0","1"," ","A","n","t","r","a","g">>>>,
     <<<<"b","e","s","c","h","e","i","d">>, <<"0","2"," ","B","e","s","c","h","e","i","d">>>>,
     <<<<"v","e","r","t","r","a","g">>, <<"0","3"," ","V","e","r","t","r","a","g">>>>,
     <<<<"r","e","c","h","n","u","n","g">>, <<"0","4"," ","R","e","c","h","n","u","n","g">>>>,
     <<<<"i","n","f","o","r","m","a","t","i","o","n">>, <<"0","5"," ","I","n","f","o","r","m","a","t","i","o","n">>>> >>

CanonicalBases == {canonical_folders[i][1] : i \in DOMAIN canonical_folders}
CanonicalNames == {canonical_folders[i][2] : i \in DOMAIN canonical_folders}

\* re.sub(r'^[0-9]+[\s_]*', '', name)
RECURSIVE DropWhile(_, _)
DropWhile(s, chars) ==
  IF s # << >> /\ s[1] \in chars THEN DropWhile(Tail(s), chars) ELSE s
StripNumberPrefix(name) ==
  IF name # << >> /\ IsDigit(name[1])
  THEN DropWhile(DropWhile(name, Digits), Spaces \cup {"_"})
  ELSE name

\* the base name of a folder: lower case, underscores as spaces, stripped,
\* without number prefix, first word only
FolderBase(folder_name) ==
  LET name == StripNumberPrefix(Strip(ReplaceChar(Lower(folder_name), "_", " ")))
      words == SplitWords(name)
  IN IF words # << >> THEN words[1] ELSE name

\* folder_variants.get(base, []): the folders of the scan with that base
FolderVariants(existing_folders, base) ==
  SelectSeq(existing_folders, LAMBDA folder : FolderBase(BaseName(folder)) = base)

\* range(1, 100) of the collision loop
AltRange == 99

\* f"{stem}_alt{i}{ext}"
AltName(item_name, i) ==
  LET se == SplitExt(item_name)
  IN se[1] \o <<"_","a","l","t">> \o IntToStr(i) \o se[2]

\* the destination of an item: its own name in the target folder or, when
\* that exists, the first free _altN name; the own name when none is free
FirstFreeAlt(f, target_path, item_name, i) ==
  LET free == {j \in i..AltRange :
                 ~Exists(f, Append(target_path, AltName(item_name, j)))}
  IN IF free = {} THEN Append(target_path, item_name)
     ELSE Append(target_path,
                 AltName(item_name, CHOOSE j \in free : \A k \in free : j <= k))

ItemDest(f, target_path, item) ==
  IF Exists(f, Append(target_path, BaseName(item)))
  THEN FirstFreeAlt(f, target_path, BaseName(item), 1)
  ELSE Append(target_path, BaseName(item))

\* The state of one run: the file system, the number of calls that changed
\* it, the canonical names whose loop body was entered, and whether an
\* exception reached the outer handler.
Count(old, new) == IF old = new THEN 0 ELSE 1

\* for item in folder.iterdir(): move the item, an exception is printed
RECURSIVE MoveItems(_, _, _)
MoveItems(s, items, target_path) ==
  IF items = << >> THEN s
  ELSE LET m == ShutilMove(s.fs, items[1], ItemDest(s.fs, target_path, items[1]))
       IN MoveItems([s EXCEPT !.fs = m.fs, !.ops = @ + Count(s.fs, m.fs)],
                    Tail(items), target_path)

\* for folder in folder_variants.get(base, []): merge and remove the folder;
\* the listing of the folder is not guarded
RECURSIVE MergeVariants(_, _, _)
MergeVariants(s, folders, target_path) ==
  IF folders = << >> THEN s
  ELSE LET folder == folders[1]
       IN IF folder = target_path THEN MergeVariants(s, Tail(folders), target_path)
          ELSE IF ~IsDir(s.fs, folder) \/ folder \in s.fs.unreadable
          THEN [s EXCEPT !.raised = TRUE]
          ELSE LET moved == MoveItems(s, ListingOrder(Children(s.fs, folder)),
                                      target_path)
                   r == Rmdir(moved.fs, folder)
               IN MergeVariants([moved EXCEPT !.fs = r.fs,
                                              !.ops = @ + Count(moved.fs, r.fs)],
                                Tail(folders), target_path)

\* for base, target_name in canonical_folders.items()
RECURSIVE SyncCategories(_, _, _)
SyncCategories(s, cats, existing_folders) ==
  IF cats = << >> THEN s
  ELSE LET base == cats[1][1]
           target_path == <<cats[1][2]>>
           entered == [s EXCEPT !.reached = @ \cup {cats[1][2]}]
           mk == Mkdir(s.fs, target_path, TRUE)
       IN IF ~Exists(s.fs, target_path) /\ mk.err # "ok"
          THEN SyncCategories(entered, Tail(cats), existing_folders)
          ELSE LET made == IF Exists(s.fs, target_path) THEN entered
                           ELSE [entered EXCEPT !.fs = mk.fs, !.ops = @ + 1]
                   merged == MergeVariants(made,
                                           FolderVariants(existing_folders, base),
                                           target_path)
               IN IF merged.raised THEN merged
                  ELSE SyncCategories(merged, Tail(cats), existing_folders)

\* _sync_folder_structure: nothing is done for an empty store; an exception
\* of the scan or of a listing ends the run in the outer handler
SyncFolderStructure(f, store) ==
  LET s0 == [fs |-> f, ops |-> 0, reached |-> {}, raised |-> FALSE, scanned |-> FALSE]
  IN IF store = << >> THEN s0
     ELSE IF Root \in f.unreadable THEN [s0 EXCEPT !.raised = TRUE]
     ELSE SyncCategories([s0 EXCEPT !.scanned = TRUE], canonical_folders,
                         ListingOrder({p \in Children(f, Root) : IsDir(f, p)}))

\* ------------------------------------------------- file placement engine
None == <<"None">>

AllDigits(s) == \A i \in DOMAIN s : IsDigit(s[i])

\* an extraction that drops the empty parts of the split
ExtractDocumentType_NoEmptyParts(filename) ==
  LET parts == SplitOn(PathStem(filename), {"_", "-"} \cup Spaces, << >>)
      kept == SelectSeq(parts, LAMBDA p : p # << >> /\ ~(Len(p) = 8 /\ AllDigits(p)))
  IN Join(kept, <<" ">>)

\* _extract_document_type: the stem split on "_", white space or "-", without
\* the parts of exactly 8 digits, joined by single spaces
ExtractDocumentType(filename) ==
  LET parts == SplitOn(PathStem(filename), {"_", "-"} \cup Spaces, << >>)
      kept == SelectSeq(parts, LAMBDA p : ~(Len(p) = 8 /\ AllDigits(p)))
  IN Join(kept, <<" ">>)

\* re.search(r'20\d{2}', filename): the leftmost match, or None
IsYearAt(s, i) ==
  /\ i + 3 <= Len(s)
  /\ s[i] = "2" /\ s[i + 1] = "0" /\ IsDigit(s[i + 2]) /\ IsDigit(s[i + 3])
ExtractYearFromFilename(filename) ==
  IF \E i \in DOMAIN filename : IsYearAt(filename, i)
  THEN LET i == CHOOSE i \in DOMAIN filename :
                  IsYearAt(filename, i) /\ \A j \in 1..(i - 1) : ~IsYearAt(filename, j)
       IN SubSeq(filename, i, i + 3)
  ELSE None

\* _format_filename: a stem that matches ^(\d{4})(\d{2})(\d{2})(_|-)(.+)$
\* becomes "yyyy-mm-dd rest"; every other name is returned as it is
FormatFilename(filename) ==
  LET stem == PathStem(filename)
      extension == PathSuffix(filename)
  IN IF Len(stem) >= 10 /\ AllDigits(Upto(stem, 8)) /\ stem[9] \in {"_", "-"}
     THEN SubSeq(stem, 1, 4) \o <<"-">> \o SubSeq(stem, 5, 6) \o <<"-">>
            \o SubSeq(stem, 7, 8) \o <<" ">> \o From(stem, 9) \o extension
     ELSE filename

\* a test that looks for the known type in the document type only
PartialMatch_OneWay(known_type, doc_type) ==
  Contains(Lower(doc_type), Lower(known_type))

\* the test of _suggest_category for one known type
PartialMatch(known_type, doc_type) ==
  \/ Contains(Lower(doc_type), Lower(known_type))
  \/ Contains(Lower(known_type), Lower(doc_type))

CategoryMatches(entry, doc_type) ==
  /\ HasTypes(entry.data)
  /\ \E i \in DOMAIN entry.data.document_types :
        PartialMatch(entry.data.document_types[i], doc_type)

\* the result of a call that ended in a KeyError
KeyError == <<"KeyError">>

\* the loop of _suggest_category ends at entry: it matches, or reading its
\* 'document_types' raises
EndsLoop(entry, doc_type) == ~HasTypes(entry.data) \/ CategoryMatches(entry, doc_type)

\* _suggest_category: the first category, in dict order, with a matching type
SuggestCategory(d, doc_type) ==
  IF \E i \in DOMAIN d : EndsLoop(d[i], doc_type)
  THEN LET first == CHOOSE i \in DOMAIN d :
                      EndsLoop(d[i], doc_type)
                      /\ \A j \in 1..(i - 1) : ~EndsLoop(d[j], doc_type)
       IN IF HasTypes(d[first].data) THEN d[first].name ELSE KeyError
  ELSE None

\* the categories offered by _ask_for_category
AskCategories ==
  <<<<"0","1"," ","A","n","t","r","a","g">>, <<"0","2"," ","B","e","s","c","h","e","i","d">>, <<"0","3"," ","V","e","r","t","r","a","g">>, <<"0","4"," ","R","e","c","h","n","u","n","g">>, <<"0","5"," ","I","n","f","o","r","m","a","t","i","o","n">>>>

\* the document type that _ask_for_category records: the operator may pick one
\* word of a type of several words (word = 0: the whole type is kept)
AskedDocType(doc_type, word) ==
  IF word = 0 THEN doc_type ELSE SplitWords(doc_type)[word]

WordChoices(doc_type) ==
  IF Len(SplitWords(doc_type)) > 1 THEN 0..Len(SplitWords(doc_type)) ELSE {0}

\* root_path.name.isdigit() and len(root_path.name) == 4
IsYearFolder(p) == p # Root /\ Len(BaseName(p)) = 4 /\ AllDigits(BaseName(p))

\* filename.lower().endswith(('.pdf', '.jpg', '.png', '.jpeg'))
HasSortedExtension(filename) ==
  \E e \in {<<".","p","d","f">>, <<".","j","p","g">>, <<".","p","n","g">>, <<".","j","p","e","g">>} : EndsWith(Lower(filename), e)

\* os.walk(source_dir), top down: the files of a directory, then its
\* subdirectories; an unreadable directory yields nothing; the files of a
\* directory with a year name are skipped, its subdirectories are walked
RECURSIVE Walk(_, _)
RECURSIVE WalkAll(_, _)
Walk(f, dir) ==
  IF dir \in f.unreadable THEN << >>
  ELSE LET here == IF IsYearFolder(dir) THEN << >>
                   ELSE SelectSeq(ListingOrder({p \in Children(f, dir) : IsFile(f, p)}),
                                  LAMBDA p : HasSortedExtension(BaseName(p)))
       IN here \o WalkAll(f, ListingOrder({p \in Children(f, dir) : IsDir(f, p)}))
WalkAll(f, subdirs) ==
  IF subdirs = << >> THEN << >> ELSE Walk(f, subdirs[1]) \o WalkAll(f, Tail(subdirs))

\* the number of equal comparisons that _wait_for_file_sync waits for
StableCount == 3

\* one pass of the loop of _wait_for_file_sync: stat gives a size, or raises
\* FileNotFoundError
Size(n) == [found |-> TRUE, size |-> n]
NotFound == [found |-> FALSE, size |-> 0]

\* _wait_for_file_sync on the passes of its loop until the timeout; a pass
\* that ends in FileNotFoundError leaves last_size and stable_count as they are
RECURSIVE WaitLoop(_, _, _)
WaitLoop(samples, last_size, stable_count) ==
  IF samples = << >> THEN FALSE
  ELSE IF ~samples[1].found THEN WaitLoop(Tail(samples), last_size, stable_count)
  ELSE IF samples[1].size = last_size
  THEN (IF stable_count + 1 >= StableCount THEN TRUE
        ELSE WaitLoop(Tail(samples), samples[1].size, stable_count + 1))
  ELSE WaitLoop(Tail(samples), samples[1].size, 0)
WaitForFileSync(samples) == WaitLoop(samples, -1, 0)

\* whether _is_cloud_file_ready asks "Process anyway?"
ReadyAsks(cloud, f, file, size_zero, stable) ==
  cloud /\ Exists(f, file) /\ ~size_zero /\ ~stable

\* a readiness test that does not look at the size
IsCloudFileReady_AnySize(cloud, f, file, size_zero, stable, process_anyway) ==
  IF ~cloud THEN TRUE
  ELSE IF ~Exists(f, file) THEN FALSE
  ELSE IF ~stable THEN process_anyway
  ELSE TRUE

\* _is_cloud_file_ready: a local source is always ready; a cloud file must
\* exist with a size other than zero and be stable, or the operator overrides
IsCloudFileReady(cloud, f, file, size_zero, stable, process_anyway) ==
  IF ~cloud THEN TRUE
  ELSE IF ~Exists(f, file) THEN FALSE
  ELSE IF size_zero THEN FALSE
  ELSE IF ~stable THEN process_anyway
  ELSE TRUE

\* _ensure_year_subfolder: the year folder, or the category folder when the
\* year folder cannot be created
EnsureYearSubfolder(f, category_dir, year) ==
  LET mk == Mkdir(f, Append(category_dir, year), TRUE)
  IN IF mk.err = "ok" THEN [fs |-> mk.fs, dir |-> Append(category_dir, year)]
     ELSE [fs |-> f, dir |-> category_dir]

\* max_checks of the verification loop
CloudChecks == 5
LocalChecks == 1

\* a loop that goes on for two more checks
MaxChecks_TwoMore(cloud) == (IF cloud THEN CloudChecks ELSE LocalChecks) + 2

MaxChecks(cloud) == IF cloud THEN CloudChecks ELSE LocalChecks

\* results[category][year].append(name) on the nested ordered dict
AppendResult(results, category, year, name) ==
  LET byYear == IF Has(results, category) THEN Get(results, category) ELSE << >>
      names == IF Has(byYear, year) THEN Get(byYear, year) ELSE << >>
  IN Put(results, category, Put(byYear, year, Append(names, name)))

NoYear == <<"n","o","_","y","e","a","r">>

\* the lists of one category of formatted_results
RECURSIVE FormatYears(_)
FormatYears(byYear) ==
  IF byYear = << >> THEN << >>
  ELSE (IF byYear[1].name = NoYear THEN byYear[1].data
        ELSE [i \in DOMAIN byYear[1].data |->
                byYear[1].name \o <<"/">> \o byYear[1].data[i]])
       \o FormatYears(Tail(byYear))

\* formatted_results
FormatResults(results) ==
  [i \in DOMAIN results |->
     [name |-> results[i].name, data |-> FormatYears(results[i].data)]]

\* ------------------------------------------------------------ the system
VARIABLES
  DEFAULT_CATEGORIES,  \* the class attribute (one per process), an ordered dict
  knowledge_file,      \* the knowledge file on disk: [kind, members]
  learned_categories,  \* self.learned_categories, an ordered dict
  shared,              \* keys of learned_categories whose 'document_types' is
                       \* the list object of DEFAULT_CATEGORIES (data.copy())
  fs,                  \* the tree below the source directory
  is_cloud_path,       \* self.is_cloud_path
  phase,               \* position of the session: "start", "loaded",
                       \* "defaults", "ready", "sorting", "returned", "raised"
  discovered,          \* sort_pdfs: the list files
  tasks,               \* sort_pdfs: one record per file processed so far
  results,             \* sort_pdfs: results
  report,              \* the value sort_pdfs returned
  readiness,           \* sort_pdfs: per file processed, what the readiness
                       \* check met and whether it asked the operator
  earlier,             \* one entry per earlier call of sort_pdfs that returned:
                       \* the target paths of the files it moved
  loaded,              \* the store as _load_learned_categories returned it
  sync_log,            \* the run of _sync_folder_structure that has just ended
  sync_runs,           \* runs of _sync_folder_structure directly in succession
  calls                \* the record calls made on the constructed sorter, each
                       \* <<category, doc_type>>

vars == <<DEFAULT_CATEGORIES, knowledge_file, learned_categories, shared, fs,
          is_cloud_path, phase, discovered, tasks, results, report, readiness,
          earlier, loaded, sync_log, sync_runs, calls>>

knowledge == <<DEFAULT_CATEGORIES, knowledge_file, learned_categories, shared>>
sorting == <<discovered, tasks, results, report, readiness, earlier>>

\* bounds of the model
MaxRecordCalls == 1
MaxSyncRuns == 2
MaxSortRuns == 2

\* ---- the knowledge files a session can start from
T0 == "2023-05-01T10:00:00"
T1 == "2023-06-01T10:00:00"
Rec(types, created) == [document_types |-> types, created_at |-> created]
Member(k, types, created) == [name |-> k, data |-> Rec(types, created)]

\* members a stored file is made of, in file order
CandidateMembers ==
  << Member(<<"0","1"," ","V","e","r","t","r","a","g">>, <<<<"c","o","n","t","r","a","c","t">>>>, T0),
     Member(<<"0","2"," ","I","n","f","o","r","m","a","t","i","o","n">>, <<<<"I","n","f","o">>>>, T0),
     Member(<<"0","3"," ","R","e","c","h","n","u","n","g">>, <<<<"I","n","v","o","i","c","e">>>>, T0),
     Member(<<"0","4","_","R","e","c","h","n","u","n","g">>, <<<<"b","i","l","l">>>>, T0),
     Member(<<"0","4"," ","R","e","c","h","n","u","n","g">>, <<<<"r","e","c","h","n","u","n","g">>, <<"i","n","v","o","i","c","e">>>>, T1),
     Member(<<"0","3"," ","V","e","r","t","r","a","g">>, <<<<"v","e","r","t","r","a","g">>>>, T1),
     Member(<<"0","5"," ","I","n","f","o","r","m","a","t","i","o","n">>, << >>, T1),
     Member(<<"0","4"," ","R","e","c","h","n","u","n","g">>, <<<<"b","e","l","e","g">>>>, T1),
     Member(<<"0","2"," ","I","n","f","o","r","m","a","t","i","o","n">>, <<<<"B","e","s","c","h","e","i","d">>>>, T0) >>

\* the elements of seq with index in I, in order
RECURSIVE Pick(_, _, _)
Pick(seq, I, i) ==
  IF i > Len(seq) THEN << >>
  ELSE (IF i \in I THEN <<seq[i]>> ELSE << >>) \o Pick(seq, I, i + 1)

MemberChoices ==
  {{}, {1}, {1, 6}, {2}, {2, 7}, {3}, {3, 4}, {4}, {4, 5}, {5, 8}, {1, 2, 3}, {9}, {7}}

MissingFile == [kind |-> "missing", members |-> << >>]

KnowledgeFiles ==
  {MissingFile, [kind |-> "invalid", members |-> << >>]}
  \cup {[kind |-> "object", members |-> Pick(CandidateMembers, I, 1)] :
          I \in MemberChoices}

\* ---- the trees a session can start from: a tree is put together from
\* fragments, each a set of directories, files and permissions
Frag(ds, fl, ro, ur) == [dirs |-> ds, files |-> fl, readonly |-> ro, unreadable |-> ur]

Fragments ==
  << Frag({}, {<<<<"r","e","c","h","n","u","n","g",".","p","d","f">>>>}, {}, {}),
     Frag({}, {<<<<"z","z"," ","t","o","p",".","p","d","f">>>>}, {}, {}),
     Frag({}, {<<<<"2","0","2","3","0","4","0","1","_","I","n","v","o","i","c","e","_","S","m","i","t","h",".","p","d","f">>>>}, {}, {}),
     Frag({<<<<"A","n","t","r","a","g">>>>}, {<<<<"A","n","t","r","a","g">>, <<"a",".","p","d","f">>>>}, {}, {}),
     Frag({<<<<"A","n","t","r","a","g">>>>, <<<<"A","n","t","r","a","g">>, <<"2","0","2","3">>>>},
          {<<<<"A","n","t","r","a","g">>, <<"2","0","2","3">>, <<"f",".","p","d","f">>>>}, {}, {}),
     Frag({<<<<"0","1"," ","A","n","t","r","a","g">>>>}, {<<<<"0","1"," ","A","n","t","r","a","g">>, <<"a",".","p","d","f">>>>}, {}, {}),
     Frag({<<<<"0","4"," ","R","e","c","h","n","u","n","g">>>>}, {<<<<"0","4"," ","R","e","c","h","n","u","n","g">>, <<"r","e","c","h","n","u","n","g",".","p","d","f">>>>}, {}, {}),
     Frag({}, {<<<<"0","4"," ","R","e","c","h","n","u","n","g">>>>}, {}, {}),
     Frag({<<<<"0","3"," ","R","e","c","h","n","u","n","g">>>>}, {<<<<"0","3"," ","R","e","c","h","n","u","n","g">>, <<"b","i","l","l","_","2","0","2","4",".","P","D","F">>>>}, {}, {}),
     Frag({<<<<"A","n","t","r","a","g">>>>}, {<<<<"A","n","t","r","a","g">>, <<"n",".","t","x","t">>>>}, {<<<<"A","n","t","r","a","g">>>>}, {}),
     Frag({<<<<"A","n","t","r","a","g">>>>}, {}, {}, {<<<<"A","n","t","r","a","g">>>>}),
     Frag({}, {}, {Root}, {}),
     Frag({}, {<<<<"b","e","s","c","h","e","i","d",".","p","d","f">>>>, <<<<"i","n","f","o","r","m","a","t","i","o","n",".","p","d","f">>>>}, {}, {}),
     Frag({<<<<"2","0","2","3">>>>, <<<<"2","0","2","3">>, <<"s","u","b">>>>},
          {<<<<"2","0","2","3">>, <<"x",".","p","d","f">>>>, <<<<"2","0","2","3">>, <<"s","u","b">>, <<"y",".","p","d","f">>>>}, {}, {}),
     Frag({}, {<<<<"z","z"," ","t","o","p",".","p","d","f">>>>, <<<<"t","o","p"," ","z","z",".","p","d","f">>>>}, {}, {}),
     Frag({<<<<"0","1"," ","A","n","t","r","a","g">>>>, <<<<"A","n","t","r","a","g">>>>},
          {<<<<"0","1"," ","A","n","t","r","a","g">>, <<"n",".","t","x","t">>>>, <<<<"A","n","t","r","a","g">>, <<"n",".","t","x","t">>>>}
            \cup {<<<<"0","1"," ","A","n","t","r","a","g">>, AltName(<<"n",".","t","x","t">>, i)>> : i \in 1..AltRange},
          {}, {}),
     Frag({<<<<"0","4"," ","R","e","c","h","n","u","n","g">>>>}, {<<<<"0","4"," ","R","e","c","h","n","u","n","g">>, <<"2","0","2","3">>>>}, {}, {}) >>

\* the tree made of the fragments with index in I; every file has its own
\* content
TreeOf(I) ==
  LET fl == UNION {Fragments[i].files : i \in I}
      order == ListingOrder(fl)
  IN [dirs |-> {Root} \cup UNION {Fragments[i].dirs : i \in I},
      files |-> [p \in fl |-> CHOOSE n \in DOMAIN order : order[n] = p],
      readonly |-> UNION {Fragments[i].readonly : i \in I},
      unreadable |-> UNION {Fragments[i].unreadable : i \in I}]

FragmentChoices ==
  {{}, {1, 2}, {3}, {4, 6}, {10}, {4, 11}, {5}, {5, 10}, {1, 7}, {1, 2, 8},
   {1, 2, 12}, {9}, {13}, {14}, {3, 17}}

BasicTree == TreeOf({1, 2})

Trees == {TreeOf(I) : I \in FragmentChoices}

CloudTrees == {TreeOf(I) : I \in {{1}, {3}, {1, 7}}}

UnderscoreFile == [kind |-> "object", members |-> Pick(CandidateMembers, {4, 5}, 1)]

LegacyFile == [kind |-> "object", members |-> Pick(CandidateMembers, {9}, 1)]

\* the states a run starts from: every knowledge file with the basic tree,
\* every tree with no knowledge file or with a file that has an underscore
\* name, all on a local source, and some trees in a cloud folder
Scenarios ==
  {<<k, BasicTree, FALSE>> : k \in KnowledgeFiles}
  \cup {<<k, t, FALSE>> : k \in {MissingFile, UnderscoreFile}, t \in Trees}
  \cup {<<MissingFile, t, TRUE>> : t \in CloudTrees}
  \cup {<<LegacyFile, TreeOf({13}), FALSE>>}

NoSyncLog == [ops |-> 0, reached |-> {}, raised |-> FALSE, scanned |-> FALSE]

\* ---- knowledge files written by another version of the program: a record
\* with a key more, and records with a key less
ForwardMembers ==
  << [name |-> <<"0","4"," ","R","e","c","h","n","u","n","g">>,
      data |-> [document_types |-> <<<<"r","e","c","h","n","u","n","g">>>>, created_at |-> T0,
                color |-> "red"]],
     [name |-> <<"0","4"," ","R","e","c","h","n","u","n","g">>, data |-> [document_types |-> <<<<"r","e","c","h","n","u","n","g">>>>]],
     [name |-> <<"0","4"," ","R","e","c","h","n","u","n","g">>, data |-> [created_at |-> T0]],
     [name |-> <<"0","6"," ","E","x","t","r","a">>, data |-> [created_at |-> T0]] >>

ForwardFiles ==
  {[kind |-> "object", members |-> <<ForwardMembers[i]>>] : i \in DOMAIN ForwardMembers}

ForwardTrees == {TreeOf(I) : I \in {{1, 2}, {3}, {1, 7}, {13}}}

ForwardScenarios == {<<k, t, FALSE>> : k \in ForwardFiles, t \in ForwardTrees}

InitFrom(scenarios) ==
  /\ DEFAULT_CATEGORIES = DefaultCategoriesTable
  /\ \E sc \in scenarios :
       /\ knowledge_file = sc[1]
       /\ fs = sc[2]
       /\ is_cloud_path = sc[3]
  /\ learned_categories = << >>
  /\ shared = {}
  /\ phase = "start"
  /\ discovered = << >>
  /\ tasks = << >>
  /\ results = << >>
  /\ report = None
  /\ readiness = << >>
  /\ earlier = << >>
  /\ loaded = << >>
  /\ sync_log = NoSyncLog
  /\ sync_runs = 0
  /\ calls = << >>

Init == InitFrom(Scenarios)

InitForward == InitFrom(ForwardScenarios)

\* ---- knowledge files that are missing or hold no JSON object: a text that
\* is not JSON, a JSON value of another kind, bytes that are not UTF-8
CorruptFiles ==
  {MissingFile} \cup {[kind |-> k, members |-> << >>] :
                        k \in {"invalid", "other", "undecodable"}}

CorruptScenarios == {<<k, t, FALSE>> : k \in CorruptFiles, t \in ForwardTrees}

InitCorrupt == InitFrom(CorruptScenarios)

\* ---- file names for the extraction of the document type and of the year:
\* a date of 8 digits, runs of 7 and of 9 digits, separators one after the
\* other and at the ends, a year inside a number, a dot in the stem
ExtractNames ==
  {<<"2","0","2","3","0","4","0","1","_","I","n","v","o","i","c","e","_","S","m","i","t","h",".","p","d","f">>, <<"R","e","c","h","n","u","n","g"," ","-"," ","M","a","i",".","p","d","f">>, <<"1","2","3","4","5","6","7","_","x",".","p","d","f">>,
   <<"1","2","3","4","5","6","7","8","9","-","y",".","p","d","f">>, <<"1","9","9","9","_","2","0","2","4"," ","z",".","p","d","f">>, <<"1","2","0","3","0","5",".","p","d","f">>, <<"2","0","2","4","0","1","0","1",".","p","d","f">>,
   <<"a","r","c","h","i","v","e",".","t","a","r",".","p","d","f">>, <<".","p","d","f">>, <<"a", "\t", "b", ".", "j", "p", "g">>,
   <<"s","c","a","n","_","_","2",".","P","N","G">>, <<"2","0","2","3","0","4","0","1",".","2","0","2","3","0","4","0","2","_","a",".","p","d","f">>, <<"_","x","-",".","p","d","f">>}

\* a source directory with the one file name
NameTree(name) ==
  [dirs |-> {Root}, files |-> [p \in {<<name>>} |-> 1], readonly |-> {},
   unreadable |-> {}]

NameScenarios == {<<MissingFile, NameTree(name), FALSE>> : name \in ExtractNames}

InitNames == InitFrom(NameScenarios)

\* ---- source directories with folders to merge: an item with the name of
\* an item of the canonical folder, a subfolder, a folder that cannot be
\* written or read, and a canonical folder that has all names from _alt1 to
\* _alt99 of an item
MergeTrees == {TreeOf(I) : I \in {{4, 6}, {5}, {9}, {10}, {4, 11}, {5, 10}, {16}}}

MergeScenarios == {<<MissingFile, t, FALSE>> : t \in MergeTrees}

InitMerge == InitFrom(MergeScenarios)

\* ---- source directories on which sort_pdfs is called again after it has
\* returned
RerunTrees == {TreeOf(I) : I \in {{1, 2}, {3}, {1, 7}, {15}}}

RerunScenarios == {<<MissingFile, t, FALSE>> : t \in RerunTrees}

InitRerun == InitFrom(RerunScenarios)

\* ---- construction of a PDFSorter
\* self.learned_categories = self._load_learned_categories()
Load ==
  /\ phase = "start"
  /\ IF LoadRaises(knowledge_file)
     THEN /\ phase' = "raised"
          /\ UNCHANGED <<learned_categories, loaded>>
     ELSE /\ phase' = "loaded"
          /\ learned_categories' = LoadLearnedCategories(knowledge_file)
          /\ loaded' = LoadLearnedCategories(knowledge_file)
  /\ shared' = {}
  /\ UNCHANGED <<DEFAULT_CATEGORIES, knowledge_file, fs, is_cloud_path, sorting,
                 sync_log, sync_runs, calls>>

\* self._ensure_default_categories(), which ends with a save
EnsureDefaults ==
  /\ phase = "loaded"
  /\ IF EnsureRaises(learned_categories)
     THEN /\ phase' = "raised"
          /\ UNCHANGED <<learned_categories, shared, knowledge_file>>
     ELSE LET r == EnsureDefaultCategories(learned_categories, DEFAULT_CATEGORIES)
          IN /\ phase' = "defaults"
             /\ learned_categories' = r.store
             /\ shared' = r.shared
             /\ knowledge_file' = SaveLearnedCategories(r.store)
  /\ UNCHANGED <<DEFAULT_CATEGORIES, fs, is_cloud_path, sorting, loaded,
                 sync_log, sync_runs, calls>>

\* self._sync_folder_structure(): the call of __init__, and later calls on
\* the constructed sorter
SyncFolders ==
  /\ phase \in {"defaults", "ready"}
  /\ sync_runs < MaxSyncRuns
  /\ LET s == SyncFolderStructure(fs, learned_categories)
     IN /\ fs' = s.fs
        /\ sync_log' = [ops |-> s.ops, reached |-> s.reached, raised |-> s.raised,
                        scanned |-> s.scanned]
  /\ sync_runs' = sync_runs + 1
  /\ phase' = "ready"
  /\ UNCHANGED <<knowledge, is_cloud_path, sorting, loaded, calls>>

\* ---- record: a call of _update_category_knowledge on the constructed sorter
RecordCategories == {<<"0","4"," ","R","e","c","h","n","u","n","g">>, <<"0","6"," ","S","o","n","s","t","i","g","e","s">>}
RecordTokens == {<<"I","N","V","O","I","C","E">>, <<"B","e","l","e","g"," ","n","e","u">>}

UpdateKnowledge(category, doc_type) ==
  /\ learned_categories' = UpdateStore(learned_categories, category, doc_type)
  /\ DEFAULT_CATEGORIES' =
       UpdateDefaults(DEFAULT_CATEGORIES, shared, learned_categories, category, doc_type)
  /\ knowledge_file' =
       IF UpdateSaves(learned_categories, category, doc_type)
       THEN SaveLearnedCategories(UpdateStore(learned_categories, category, doc_type))
       ELSE knowledge_file
  /\ shared' = shared

UpdateCategoryKnowledge(category, doc_type) ==
  /\ phase = "ready"
  /\ Len(calls) < MaxRecordCalls
  /\ IF UpdateRaises(learned_categories, category)
     THEN phase' = "raised" /\ UNCHANGED knowledge
     ELSE phase' = phase /\ UpdateKnowledge(category, doc_type)
  /\ calls' = Append(calls, <<category, doc_type>>)
  /\ sync_runs' = 0
  /\ sync_log' = NoSyncLog
  /\ UNCHANGED <<fs, is_cloud_path, sorting, loaded>>

Record == \E c \in RecordCategories, t \in RecordTokens : UpdateCategoryKnowledge(c, t)

\* ---- sort_pdfs
\* the discovery: no file ends the call with an empty report
Discover ==
  /\ LET found == Walk(fs, Root)
     IN /\ discovered' = found
        /\ phase' = IF found = << >> THEN "returned" ELSE "sorting"
        /\ report' = IF found = << >> THEN << >> ELSE None
  /\ tasks' = << >>
  /\ results' = << >>
  /\ readiness' = << >>
  /\ sync_runs' = 0
  /\ sync_log' = NoSyncLog
  /\ UNCHANGED <<knowledge, fs, is_cloud_path, loaded, calls>>

\* the call of sort_pdfs that main makes
SortStart ==
  /\ phase = "ready"
  /\ Discover
  /\ UNCHANGED earlier

\* the target paths of the files that the call of sort_pdfs moved
MovedTargets == {tasks[t].target : t \in {u \in DOMAIN tasks : tasks[u].outcome = "Moved"}}

\* sort_pdfs is called again on the same sorter after it has returned
SortAgain ==
  /\ phase = "returned"
  /\ Len(earlier) + 1 < MaxSortRuns
  /\ Discover
  /\ earlier' = Append(earlier, MovedTargets)

\* The record of one pass of the loop over files: the file, what the operator
\* was asked and answered (asked: the arguments of the record call, overwrite:
\* "y", "n" or "none"), how the pass ended, the target path, and the number of
\* the verification check that saw the move (0: none did).
Task(file, asked, overwrite, outcome, target, verified) ==
  [file |-> file, asked |-> asked, overwrite |-> overwrite, outcome |-> outcome,
   target |-> target, verified |-> verified]

EndOfFile(task, newFs, newResults) ==
  /\ tasks' = Append(tasks, task)
  /\ fs' = newFs
  /\ results' = newResults
  /\ phase' = "sorting"
  /\ UNCHANGED <<is_cloud_path, discovered, report, earlier, loaded, sync_log,
                 sync_runs, calls>>

\* an exception leaves sort_pdfs
RaiseOutOfSort(task, newFs) ==
  /\ tasks' = Append(tasks, task)
  /\ fs' = newFs
  /\ phase' = "raised"
  /\ UNCHANGED <<is_cloud_path, discovered, results, report, earlier, loaded,
                 sync_log, sync_runs, calls>>

\* What the readiness check of one file meets: the cloud client has taken
\* the file away (evicted), the size that stat gives, the samples of
\* _wait_for_file_sync until the timeout, the answer to "Process anyway?"
ReadyInput(e, z, s, a) ==
  [evicted |-> e, size |-> z, samples |-> s, process_anyway |-> a]
ReadyInputs ==
  IF is_cloud_path
  THEN {ReadyInput(TRUE, 0, << >>, FALSE),
        ReadyInput(FALSE, 0, <<Size(0), Size(0), Size(0), Size(0)>>, FALSE),
        ReadyInput(FALSE, 5, <<Size(5), Size(5), Size(5), Size(5)>>, FALSE),
        ReadyInput(FALSE, 5, <<Size(5), Size(7), Size(7), Size(7), Size(7)>>, FALSE),
        ReadyInput(FALSE, 5, <<Size(5), Size(5), NotFound, Size(5), Size(5)>>, FALSE)}
       \cup {ReadyInput(FALSE, 5, s, a) :
               s \in {<<Size(5), Size(5), Size(5)>>,
                      <<Size(5), Size(7), Size(5), Size(7), Size(5)>>},
               a \in BOOLEAN}
  ELSE {ReadyInput(FALSE, 5, << >>, FALSE)}

\* the file system without file: the cloud client keeps it in the cloud only
Evict(f, file) ==
  [f EXCEPT !.files = [p \in DOMAIN f.files \ {file} |-> f.files[p]]]

\* a collision check that never skips
Declines_Never(choice) == FALSE

\* if choice != 'y': the file is skipped
Declines(choice) == choice # "y"

\* the answers to "Overwrite? (y/n)", asked when the target path exists
OverwriteAnswers(f, target_path) ==
  IF Exists(f, target_path) THEN {"y", "n"} ELSE {"none"}

\* the number of verification checks at which a cloud folder still shows the
\* state before the move; a local folder shows the move at once
StaleChecks == IF is_cloud_path THEN {0, 2, CloudChecks} ELSE {0}

\* a check that looks at the target only
CheckPasses_TargetOnly(target_exists_after, source_exists_after) ==
  target_exists_after

\* if target_exists_after and not source_exists_after
CheckPasses(target_exists_after, source_exists_after) ==
  target_exists_after /\ ~source_exists_after

\* the verification loop: check number n (from 1) sees the file system when
\* n > stale, and before that the source without the target; the result is
\* the number of the first check that passes, 0 when no check does
Seen(f, file, target_path, stale, n) ==
  IF n > stale THEN CheckPasses(Exists(f, target_path), Exists(f, file))
  ELSE CheckPasses(FALSE, TRUE)
Verified(f, file, target_path, stale) ==
  IF \E n \in 1..MaxChecks(is_cloud_path) : Seen(f, file, target_path, stale, n)
  THEN CHOOSE n \in 1..MaxChecks(is_cloud_path) :
         /\ Seen(f, file, target_path, stale, n)
         /\ \A m \in 1..(n - 1) : ~Seen(f, file, target_path, stale, m)
  ELSE 0

\* a key that is the year as it was extracted
YearKey_AsExtracted(year) == year

\* year if year else "no_year"
YearKey(year) == IF year # None THEN year ELSE NoYear

\* steps PreparePath, CollisionCheck, Move and Record for a ready file of
\* category category; asked is what the operator was asked to classify
PlaceFile(file, category, asked) ==
  LET category_dir == <<category>>
      mk == Mkdir(fs, category_dir, TRUE)
      year == ExtractYearFromFilename(BaseName(file))
      yr == IF year # None THEN EnsureYearSubfolder(mk.fs, category_dir, year)
            ELSE [fs |-> mk.fs, dir |-> category_dir]
      target_dir == yr.dir
      target_path == Append(target_dir, FormatFilename(BaseName(file)))
      mk2 == Mkdir(yr.fs, target_dir, TRUE)
      mv == ShutilMove(mk2.fs, file, target_path)
  IN IF mk.err = "PermissionError"
     THEN EndOfFile(Task(file, asked, "none", "MkdirDenied", None, 0), fs, results)
     ELSE IF mk.err # "ok"
     THEN RaiseOutOfSort(Task(file, asked, "none", "Raised", None, 0), fs)
     ELSE \E choice \in OverwriteAnswers(yr.fs, target_path) :
            IF choice # "none" /\ Declines(choice)
            THEN EndOfFile(Task(file, asked, choice, "Declined", target_path, 0),
                           yr.fs, results)
            ELSE IF mk2.err # "ok" \/ ~mv.ok
            THEN EndOfFile(Task(file, asked, choice, "Error", target_path, 0),
                           mv.fs, results)
            ELSE \E stale \in StaleChecks :
                   LET check == Verified(mv.fs, file, target_path, stale)
                   IN IF check > 0
                      THEN EndOfFile(Task(file, asked, choice, "Moved", target_path,
                                          check),
                                     mv.fs,
                                     AppendResult(results, category, YearKey(year),
                                                  BaseName(target_path)))
                      ELSE EndOfFile(Task(file, asked, choice, "Unconfirmed",
                                          target_path, 0),
                                     mv.fs, results)

\* one pass of the loop over files
ProcessFile ==
  /\ phase = "sorting"
  /\ Len(tasks) < Len(discovered)
  /\ LET file == discovered[Len(tasks) + 1]
         doc_type == ExtractDocumentType(BaseName(file))
         suggested == SuggestCategory(learned_categories, doc_type)
     IN \E rd \in ReadyInputs :
          LET seen == IF rd.evicted THEN Evict(fs, file) ELSE fs
              stable == WaitForFileSync(rd.samples)
          IN /\ readiness' =
                  Append(readiness,
                         [input |-> rd,
                          asked |-> ReadyAsks(is_cloud_path, seen, file,
                                              rd.size = 0, stable)])
             /\ IF ~IsCloudFileReady(is_cloud_path, seen, file, rd.size = 0, stable,
                                     rd.process_anyway)
                THEN /\ EndOfFile(Task(file, None, "none", "NotReady", None, 0),
                                  seen, results)
                     /\ UNCHANGED knowledge
                ELSE IF suggested = KeyError
                THEN /\ RaiseOutOfSort(Task(file, None, "none", "KeyError", None, 0),
                                       fs)
                     /\ UNCHANGED knowledge
                ELSE IF suggested # None
                THEN /\ PlaceFile(file, suggested, None)
                     /\ UNCHANGED knowledge
                ELSE \E word \in WordChoices(doc_type),
                        choice \in DOMAIN AskCategories :
                       /\ UpdateKnowledge(AskCategories[choice],
                                          AskedDocType(doc_type, word))
                       /\ PlaceFile(file, AskCategories[choice],
                                    <<AskCategories[choice],
                                      AskedDocType(doc_type, word)>>)

\* the end of sort_pdfs: formatted_results is returned
SortReturn ==
  /\ phase = "sorting"
  /\ Len(tasks) = Len(discovered)
  /\ report' = FormatResults(results)
  /\ phase' = "returned"
  /\ UNCHANGED <<knowledge, fs, is_cloud_path, discovered, tasks, results,
                 readiness, earlier, loaded, sync_log, sync_runs, calls>>

Next ==
  \/ Load
  \/ EnsureDefaults
  \/ SyncFolders
  \/ Record
  \/ SortStart
  \/ ProcessFile
  \/ SortReturn

Spec == Init /\ [][Next]_vars

\* the same program started from a knowledge file of another version
SpecForward == InitForward /\ [][Next]_vars

\* the same program started from a knowledge file that is missing or corrupt
SpecCorrupt == InitCorrupt /\ [][Next]_vars

\* the same program started on a source directory with one file, for the
\* functions of the file name
SpecNames == InitNames /\ [][Next]_vars

\* the same program with a caller that calls sort_pdfs again
NextRerun ==
  \/ Next
  \/ SortAgain

SpecRerun == InitRerun /\ [][NextRerun]_vars

\* the same program started on a source directory with folders to merge
SpecMerge == InitMerge /\ [][Next]_vars

\* ------------------------------------------------------------ properties
Last(s) == s[Len(s)]

\* a pass of the loop over files of sort_pdfs has just ended
FileStep == Len(tasks') = Len(tasks) + 1

\* a record call on the constructed sorter has just ended
RecordStep == Len(calls') = Len(calls) + 1

\* doc_type is a type of category in store d, letter case ignored
KnownIgnoringCase(d, category, doc_type) ==
  /\ Has(d, category)
  /\ \E i \in DOMAIN Get(d, category).document_types :
        Lower(Get(d, category).document_types[i]) = Lower(doc_type)

\* the number of file names in results
RECURSIVE SumLen(_)
SumLen(lists) == IF lists = << >> THEN 0 ELSE Len(lists[1].data) + SumLen(Tail(lists))
RECURSIVE NamesIn(_)
NamesIn(res) == IF res = << >> THEN 0 ELSE SumLen(res[1].data) + NamesIn(Tail(res))

\* C1: running _sync_folder_structure twice in succession performs no
\* file system operation (mkdir, move, rmdir) during the second run.
C1_SecondRunDoesNothing == sync_runs >= 2 => sync_log.ops = 0

\* C2: an exception while preparing the path, checking for a collision or
\* moving one file fails only that file: sort_pdfs goes on with the files
\* that follow and returns a report, it is never left by the exception.
C2_FailureStaysInOneFile ==
  /\ phase # "raised"
  /\ \A i \in DOMAIN tasks : tasks[i].outcome # "Raised"

\* C3: a failure while creating, listing, merging or removing a folder of one
\* canonical category is skipped: a run of _sync_folder_structure that has
\* scanned the source directory reaches every canonical category.
C3_EveryCategoryReached == sync_log.scanned => sync_log.reached = CanonicalNames

\* C4: when the target path exists and the operator declines to overwrite,
\* the task ends skipped, the file system is left as it was (source in place,
\* target unchanged, nothing created) and nothing is added to the results.
C4_DeclineLeavesEverything ==
  [][(FileStep /\ Last(tasks').overwrite = "n")
       => /\ Last(tasks').outcome = "Declined"
          /\ fs' = fs
          /\ results' = results]_vars

\* a declined overwrite: source and target are both still there
C4_Declined ==
  \E i \in DOMAIN tasks :
     /\ tasks[i].overwrite = "n"
     /\ tasks[i].outcome = "Declined"
     /\ tasks[i].file # tasks[i].target
     /\ IsFile(fs, tasks[i].file) /\ IsFile(fs, tasks[i].target)

\* C5: a pass of the loop appends at most one name to the results, and
\* appends one only when a verification check after the move saw the target
\* path exist and the source path not exist.
C5_AppendOnlyOnConfirmedMove ==
  [][FileStep
       => LET t == Last(tasks')
              n == NamesIn(results') - NamesIn(results)
          IN /\ n \in {0, 1}
             /\ n = 1 => /\ t.verified \in 1..MaxChecks(is_cloud_path)
                         /\ Exists(fs', t.target)
                         /\ ~Exists(fs', t.file)]_vars

\* a file was moved, confirmed and put in the results
C5_Appended ==
  \E i \in DOMAIN tasks :
     /\ tasks[i].outcome = "Moved"
     /\ NamesIn(results) >= 1
     /\ ~Exists(fs, tasks[i].file)

\* C6: when sort_pdfs returns an empty report, no file was moved: every file
\* that was discovered is still at its path, unless the cloud client took it
\* away.
C6_EmptyReportNothingMoved ==
  (phase = "returned" /\ report = << >>)
    => \A i \in DOMAIN discovered :
          IsFile(fs, discovered[i]) \/ readiness[i].input.evicted

\* the arguments of the record calls made so far, direct or by the operator's
\* answer in sort_pdfs
Recorded ==
  {calls[i] : i \in DOMAIN calls}
  \cup {tasks[i].asked : i \in {j \in DOMAIN tasks : tasks[j].asked # None}}

\* the store a new sorter gets from the file: load, then ensure_defaults
Reloaded(defaults) ==
  EnsureDefaultCategories(LoadLearnedCategories(knowledge_file), defaults).store

\* C7: after _ensure_default_categories and after every record the file holds
\* the store that is in memory, and a store reloaded from the file has every
\* recorded type under its category, letter case ignored.
C7_FileHoldsTheStore ==
  phase \in {"defaults", "ready", "sorting", "returned", "raised"}
    => /\ LoadLearnedCategories(knowledge_file) = learned_categories
       /\ \A r \in Recorded :
            \A defaults \in {DefaultCategoriesTable, DEFAULT_CATEGORIES} :
               KnownIgnoringCase(Reloaded(defaults), r[1], r[2])

\* a new type was recorded for a category that existed, and is in the file
C7_Recorded ==
  \E r \in Recorded :
     /\ r[1] \in DefaultNames
     /\ knowledge_file.kind = "object"
     /\ \E i \in DOMAIN knowledge_file.members :
           /\ knowledge_file.members[i].name = r[1]
           /\ Len(knowledge_file.members[i].data.document_types) > 1
           /\ Last(knowledge_file.members[i].data.document_types) = r[2]

\* C8: a record call with a type that the category has already, letter case
\* ignored, changes neither the store nor the file, and a second call with
\* the same arguments would change nothing.
C8_RecordIdempotent ==
  [][RecordStep
       => LET category == Last(calls')[1]
              doc_type == Last(calls')[2]
          IN /\ KnownIgnoringCase(learned_categories, category, doc_type)
                  => /\ learned_categories' = learned_categories
                     /\ knowledge_file' = knowledge_file
             /\ UpdateStore(learned_categories', category, doc_type)
                  = learned_categories'
             /\ ~UpdateSaves(learned_categories', category, doc_type)]_vars

\* a type was recorded that the category has in another letter case only
C8_KnownInOtherCase ==
  \E i \in DOMAIN calls :
     /\ KnownIgnoringCase(learned_categories, calls[i][1], calls[i][2])
     /\ ~InSeq(calls[i][2], Get(learned_categories, calls[i][1]).document_types)

\* C9: after _ensure_default_categories, for every pair (old, new) of the
\* migration table: a loaded store with old and without new has new with the
\* record of old and has old no more; a loaded store with new keeps the
\* record of new.
C9_LegacyMigration ==
  phase = "defaults"
    => \A i \in DOMAIN migration_map :
          LET old_cat == migration_map[i][1]
              new_cat == migration_map[i][2]
          IN /\ (Has(loaded, old_cat) /\ ~Has(loaded, new_cat))
                  => /\ Has(learned_categories, new_cat)
                     /\ Get(learned_categories, new_cat) = Get(loaded, old_cat)
                     /\ ~Has(learned_categories, old_cat)
             /\ Has(loaded, new_cat)
                  => /\ Has(learned_categories, new_cat)
                     /\ Get(learned_categories, new_cat) = Get(loaded, new_cat)

\* a legacy category was moved to its new name
C9_Migrated ==
  /\ phase = "defaults"
  /\ \E i \in DOMAIN migration_map :
        /\ Has(loaded, migration_map[i][1])
        /\ ~Has(loaded, migration_map[i][2])
        /\ Has(learned_categories, migration_map[i][2])
        /\ ~Has(learned_categories, migration_map[i][1])

\* C10: after _ensure_default_categories the five default names are keys of
\* the store and no default name is there with an underscore for its space.
C10_UnderscoreNamesConsolidated ==
  phase = "defaults"
    => /\ DefaultNames \subseteq Keys(learned_categories)
       /\ \A n \in DefaultNames : ~Has(learned_categories, ReplaceChar(n, " ", "_"))

\* the types of the store's entry i
TypesAt(d, i) == d[i].data.document_types

\* some type of entry i and some type of entry j are equal, letter case ignored
ShareType(d, i, j) ==
  \E a \in DOMAIN TypesAt(d, i), b \in DOMAIN TypesAt(d, j) :
     Lower(TypesAt(d, i)[a]) = Lower(TypesAt(d, j)[b])

\* C11: after load and _ensure_default_categories, and after the records that
\* sort_pdfs makes for the operator's answers, no type, letter case ignored,
\* is in the lists of two different categories of the store.
C11_TypeInOneCategory ==
  (phase \in {"defaults", "ready", "sorting", "returned", "raised"} /\ calls = << >>)
    => \A i, j \in DOMAIN learned_categories :
          i # j => ~ShareType(learned_categories, i, j)

\* document types that _suggest_category is asked about
SuggestCandidates ==
  {<<"I","n","v","o","i","c","e">>, <<"i","n","v","o","i","c","e","s">>, <<"t","h","e"," ","i","n","v","o","i","c","e">>, <<"i","n","v">>, << >>, <<"z","z"," ","t","o","p">>,
   <<"i","n","f","o","r","m","a","t","i","o","n">>}

\* the entries of store d with a type k such that lower(k) is a substring of
\* lower(c) or lower(c) is a substring of lower(k)
MatchingEntries(d, c) ==
  {i \in DOMAIN d :
     \E n \in DOMAIN TypesAt(d, i) :
        \/ Contains(Lower(c), Lower(TypesAt(d, i)[n]))
        \/ Contains(Lower(TypesAt(d, i)[n]), Lower(c))}

\* the smallest element of a set of numbers that is not empty
Min(I) == CHOOSE i \in I : \A j \in I : i <= j

\* C12: _suggest_category returns the first category, in the order of the
\* store, that has a type matching the candidate as a substring in either
\* direction; it returns None exactly when no category has one, and so
\* whenever no category has any type.  Stated for the store as it is loaded,
\* as it is after construction, and as it is when sort_pdfs has returned.
C12_FirstMatchWins ==
  phase \in {"loaded", "defaults", "ready", "returned"}
    => \A c \in SuggestCandidates :
          LET r == SuggestCategory(learned_categories, c)
              m == MatchingEntries(learned_categories, c)
          IN /\ (r = None) <=> (m = {})
             /\ m # {} => r = learned_categories[Min(m)].name
             /\ (\A i \in DOMAIN learned_categories :
                    TypesAt(learned_categories, i) = << >>)
                  => r = None

\* a file was placed in the first of two categories that match its type
C12_PlacedInFirstOfTwo ==
  \E t \in DOMAIN tasks :
     LET c == ExtractDocumentType(BaseName(tasks[t].file))
         m == MatchingEntries(learned_categories, c)
     IN /\ tasks[t].asked = None
        /\ tasks[t].outcome = "Moved"
        /\ Cardinality(m) >= 2
        /\ tasks[t].target[1] = learned_categories[Min(m)].name

\* C13: when a type k is known under category A, every candidate c with
\* lower(k) a substring of lower(c), or lower(c) a substring of lower(k),
\* is resolved to A by _suggest_category.
C13_SubstringSymmetry ==
  phase \in {"defaults", "ready", "sorting", "returned", "raised"}
    => \A c \in SuggestCandidates :
          \A i \in MatchingEntries(learned_categories, c) :
             SuggestCategory(learned_categories, c) = learned_categories[i].name

\* p lies beneath a directory whose name is exactly four digits
BeneathYearFolder(p) ==
  \E n \in 1..(Len(p) - 1) : Len(p[n]) = 4 /\ AllDigits(p[n])

\* C14: no file beneath a directory whose name is exactly four digits,
\* directly in it or in one of its subdirectories, is in the list of files
\* that sort_pdfs processes.
C14_YearFoldersExcluded ==
  \A i \in DOMAIN discovered : ~BeneathYearFolder(discovered[i])

\* the name has no substring of four characters "20" digit digit
HasNoYear(name) ==
  ~\E i \in 1..(Len(name) - 3) :
      name[i] = "2" /\ name[i + 1] = "0" /\ IsDigit(name[i + 2]) /\ IsDigit(name[i + 3])

\* the tasks of files that were moved and confirmed, without and with a year
\* in the name
MovedNoYear == {t \in DOMAIN tasks : tasks[t].outcome = "Moved"
                                      /\ HasNoYear(BaseName(tasks[t].file))}
MovedWithYear == {t \in DOMAIN tasks : tasks[t].outcome = "Moved"
                                        /\ ~HasNoYear(BaseName(tasks[t].file))}

\* C15: a moved file whose name has no year lies directly in the category
\* folder, its name is in results under the key "no_year" of the category,
\* which is no key of a year, and the returned report lists it by its bare
\* name, while a file with a year is listed as year/name.
C15_NoYearFallback ==
  /\ \A t \in MovedNoYear :
       LET category == tasks[t].target[1]
           name == BaseName(tasks[t].target)
       IN /\ tasks[t].target = <<category, name>>
          /\ Has(results, category)
          /\ Has(Get(results, category), NoYear)
          /\ InSeq(name, Get(Get(results, category), NoYear))
          /\ phase = "returned" => InSeq(name, Get(report, category))
  /\ \A t \in MovedWithYear :
       LET category == tasks[t].target[1]
           year == ExtractYearFromFilename(BaseName(tasks[t].file))
           name == BaseName(tasks[t].target)
       IN /\ year # NoYear
          /\ InSeq(name, Get(Get(results, category), year))
          /\ phase = "returned"
               => InSeq(year \o <<"/">> \o name, Get(report, category))

\* sort_pdfs has returned a report with a file that has no year in its name
C15_ReportedWithoutYear ==
  /\ phase = "returned"
  /\ \E t \in MovedNoYear :
        /\ IsFile(fs, tasks[t].target)
        /\ InSeq(BaseName(tasks[t].target), Get(report, tasks[t].target[1]))

\* the sizes that the passes of the wait loop read, in order
Sizes(samples) == SelectSeq(samples, LAMBDA x : x.found)

\* three sizes read one after the other are the same
ThreeIdentical(samples) ==
  \E i \in 1..(Len(Sizes(samples)) - 2) :
     /\ Sizes(samples)[i].size = Sizes(samples)[i + 1].size
     /\ Sizes(samples)[i].size = Sizes(samples)[i + 2].size

\* C16: on a cloud source a file goes past the readiness check only if it
\* was there with a size other than zero and either three sizes read one
\* after the other were the same or the operator approved; a file that is
\* missing or has size zero is skipped and the operator is not asked; on a
\* local source every file is ready without a check.
C16_ReadinessGate ==
  \A t \in DOMAIN tasks :
     LET rd == readiness[t].input
     IN IF is_cloud_path
        THEN /\ tasks[t].outcome # "NotReady"
                  => /\ ~rd.evicted
                     /\ rd.size # 0
                     /\ ThreeIdentical(rd.samples)
                          \/ (readiness[t].asked /\ rd.process_anyway)
             /\ (rd.evicted \/ rd.size = 0)
                  => tasks[t].outcome = "NotReady" /\ ~readiness[t].asked
        ELSE tasks[t].outcome # "NotReady" /\ ~readiness[t].asked

\* on a cloud source a file of size zero was skipped, a file was passed after
\* the operator's approval, and a file was passed for its stable size
C16_GateUsed ==
  /\ is_cloud_path
  /\ \E t \in DOMAIN tasks :
        readiness[t].input.size = 0 /\ tasks[t].outcome = "NotReady"
  /\ \E t \in DOMAIN tasks :
        readiness[t].asked /\ tasks[t].outcome # "NotReady"

\* C17: after the move of a file sort_pdfs makes at most 5 verification
\* checks on a cloud source and 1 on a local source; the file is confirmed by
\* the first check that sees the target and not the source, and when no check
\* does, the file is not confirmed, nothing is put in the results and
\* sort_pdfs goes on with the next file.
C17_BoundedVerification ==
  [][FileStep
       => LET t == Last(tasks')
          IN /\ t.verified \in 0..(IF is_cloud_path THEN 5 ELSE 1)
             /\ t.outcome = "Moved" <=> t.verified >= 1
             /\ t.outcome = "Unconfirmed"
                  => /\ t.verified = 0
                     /\ results' = results
                     /\ phase' = "sorting"]_vars

\* on a cloud source no check confirmed the move of a file, and the next file
\* was processed
C17_UnconfirmedThenNext ==
  /\ is_cloud_path
  /\ \E t \in DOMAIN tasks :
        /\ tasks[t].outcome = "Unconfirmed"
        /\ tasks[t].verified = 0
        /\ t < Len(tasks)

\* the records of the knowledge file that have a key more or a key less than
\* the program writes
OddRecords ==
  {i \in DOMAIN loaded : DOMAIN loaded[i].data # {"document_types", "created_at"}}

\* C18: on a store loaded from a file with a record that has an unknown key
\* more, or has no 'document_types' or no 'created_at', load, ensure_defaults,
\* suggest and record end without an error.
C18_ForwardReadable ==
  OddRecords # {}
    => /\ phase # "raised"
       /\ \A t \in DOMAIN tasks : tasks[t].outcome # "KeyError"

\* C19: when the knowledge file is missing or holds no JSON object (a text
\* that is not JSON, bytes that cannot be decoded, JSON of another kind),
\* _load_learned_categories gives the empty store and the construction of the
\* sorter goes on to _ensure_default_categories and _sync_folder_structure.
C19_LoadFailsSoft ==
  /\ phase # "start" => loaded = << >>
  /\ phase = "raised" => tasks # << >>

\* the category folders that sort_pdfs has made or has moved a file into
PlacementFolders ==
  {<<tasks[t].target[1]>> : t \in {u \in DOMAIN tasks : tasks[u].target # None}}

\* C20: every category folder that sort_pdfs has made or has moved a file
\* into is left in place by a following run of _sync_folder_structure.
C20_PlacementFoldersStay ==
  phase = "returned"
    => \A dir \in PlacementFolders :
          IsDir(fs, dir) => IsDir(SyncFolderStructure(fs, learned_categories).fs, dir)

\* the terminal state of a task for the way its pass of the loop ended; a
\* pass that an exception left has none
TerminalState(outcome) ==
  CASE outcome = "Moved" -> "Moved"
    [] outcome \in {"NotReady", "MkdirDenied", "Declined"} -> "Skipped"
    [] outcome \in {"Error", "Unconfirmed"} -> "Failed"
    [] OTHER -> "none"

\* C21: when sort_pdfs has ended, every file it discovered was processed
\* exactly once, in discovery order, and its task reached one of the terminal
\* states Moved, Skipped or Failed.
C21_EveryFileProcessedOnce ==
  phase \in {"returned", "raised"}
    => /\ Len(tasks) = Len(discovered)
       /\ \A i \in DOMAIN tasks :
            /\ tasks[i].file = discovered[i]
            /\ TerminalState(tasks[i].outcome) \in {"Moved", "Skipped", "Failed"}

\* the separators of the claim: underscore, white space, hyphen
TokenSeparators == {"_", "-"} \cup Spaces

\* the positions of the separators of s, with the positions before its first
\* and after its last character
Cuts(s) == {0, Len(s) + 1} \cup {i \in 1..Len(s) : s[i] \in TokenSeparators}
NthCut(s, k) == CHOOSE c \in Cuts(s) : Cardinality({d \in Cuts(s) : d < c}) = k - 1

\* the segments of s: what lies between one separator and the next
Segments(s) ==
  [k \in 1..(Cardinality(Cuts(s)) - 1) |->
     SubSeq(s, NthCut(s, k) + 1, NthCut(s, k + 1) - 1)]

\* the token the claim names for a file name
ClaimedToken(name) ==
  Join(SelectSeq(Segments(PathStem(name)),
                 LAMBDA p : ~(Len(p) = 8 /\ \A i \in 1..8 : IsDigit(p[i]))),
       <<" ">>)

\* the year the claim names for a file name
ClaimedYear(name) ==
  IF HasNoYear(name) THEN None
  ELSE LET i == Min({j \in 1..(Len(name) - 3) : ~HasNoYear(SubSeq(name, j, j + 3))})
       IN SubSeq(name, i, i + 3)

\* C22: for every file that sort_pdfs has processed, _extract_document_type
\* gives the segments of the stem (split on underscore, white space or
\* hyphen) that are not exactly 8 digits, in order, joined by single spaces,
\* and _extract_year_from_filename gives the first substring "20" digit digit
\* of the name, or None; the operator is asked about that token or one of its
\* words, and a file with a year is placed in the folder of that year;
\* 20230401_Invoice_Smith.pdf gives "Invoice Smith" and "2023".
C22_TokenAndYear ==
  /\ ExtractDocumentType(<<"2","0","2","3","0","4","0","1","_","I","n","v","o","i","c","e","_","S","m","i","t","h",".","p","d","f">>) = <<"I","n","v","o","i","c","e"," ","S","m","i","t","h">>
  /\ ExtractYearFromFilename(<<"2","0","2","3","0","4","0","1","_","I","n","v","o","i","c","e","_","S","m","i","t","h",".","p","d","f">>) = <<"2","0","2","3">>
  /\ \A t \in DOMAIN tasks :
       LET name == BaseName(tasks[t].file)
       IN /\ ExtractDocumentType(name) = ClaimedToken(name)
          /\ ExtractYearFromFilename(name) = ClaimedYear(name)
          /\ tasks[t].asked # None
               => \/ tasks[t].asked[2] = ClaimedToken(name)
                  \/ InSeq(tasks[t].asked[2], SplitWords(ClaimedToken(name)))
          /\ (tasks[t].outcome = "Moved" /\ ClaimedYear(name) # None)
               => /\ Len(tasks[t].target) = 3
                  /\ tasks[t].target[2] = ClaimedYear(name)

\* 20230401_Invoice_Smith.pdf was moved to the folder of 2023
C22_SmithPlacedIn2023 ==
  \E t \in DOMAIN tasks :
     /\ BaseName(tasks[t].file) = <<"2","0","2","3","0","4","0","1","_","I","n","v","o","i","c","e","_","S","m","i","t","h",".","p","d","f">>
     /\ tasks[t].outcome = "Moved"
     /\ tasks[t].target[2] = <<"2","0","2","3">>
     /\ IsFile(fs, tasks[t].target)

\* the paths that earlier calls of sort_pdfs moved a file to
MovedEarlier == UNION {earlier[r] : r \in DOMAIN earlier}

\* C23: a file that an earlier call of sort_pdfs moved into a category folder
\* is not moved to another path by a later call of sort_pdfs on the same
\* source directory with the store as the earlier call left it.
C23_PlacedFilesStay ==
  \A t \in DOMAIN tasks :
     (tasks[t].file \in MovedEarlier /\ tasks[t].outcome = "Moved")
       => tasks[t].target = tasks[t].file

\* the folders of the source directory that _sync_folder_structure merges
\* into a canonical folder, and the canonical folder of such a folder
VariantFolders(f) ==
  {p \in Children(f, Root) : /\ IsDir(f, p)
                             /\ FolderBase(BaseName(p)) \in CanonicalBases
                             /\ BaseName(p) \notin CanonicalNames}
TargetOf(p) ==
  <<canonical_folders[CHOOSE i \in DOMAIN canonical_folders :
                        canonical_folders[i][1] = FolderBase(BaseName(p))][2]>>

\* the paths in the canonical folder at which the claim allows an item
InTarget(item, target_path) ==
  {Append(target_path, BaseName(item))}
  \cup {Append(target_path, AltName(BaseName(item), i)) : i \in 1..AltRange}

\* what was at item in f is at q in g: the same file, or a folder with the
\* same files below it
SameAt(f, item, g, q) ==
  IF IsFile(f, item) THEN IsFile(g, q) /\ g.files[q] = f.files[item]
  ELSE /\ IsDir(g, q)
       /\ \A x \in TreeFiles(f, item) :
             /\ IsFile(g, Rebase(x, item, q))
             /\ g.files[Rebase(x, item, q)] = f.files[x]

\* a run of _sync_folder_structure has just ended
SyncStep == sync_runs' = sync_runs + 1

\* C24: in a run of _sync_folder_structure every item of a variant folder is
\* afterwards in the canonical folder, under its name or a name with _altN,
\* or still in its variant folder; everything that was in a canonical folder
\* is still there unchanged; a variant folder is removed only when all its
\* items are in the canonical folder.
C24_MergeConserves ==
  [][SyncStep
       => /\ \A v \in VariantFolders(fs) : \A item \in Children(fs, v) :
               \/ SameAt(fs, item, fs', item)
               \/ \E q \in InTarget(item, TargetOf(v)) : SameAt(fs, item, fs', q)
          /\ \A c \in CanonicalNames : \A x \in TreeFiles(fs, <<c>>) :
               SameAt(fs, x, fs', x)
          /\ \A v \in VariantFolders(fs) :
               ~IsDir(fs', v)
                 => \A item \in Children(fs, v) :
                       \E q \in InTarget(item, TargetOf(v)) : SameAt(fs, item, fs', q)]_vars

\* the token of the file of task t
TokenOf(t) == ExtractDocumentType(BaseName(tasks[t].file))

\* C25: after the operator has classified a file with token t, with or
\* without narrowing t to one of its words, _suggest_category(t) returns the
\* category the operator chose, for the rest of the session, and a later
\* file with the same token is classified without asking the operator.
C25_LearnedTokenKeepsCategory ==
  \A t \in DOMAIN tasks :
     tasks[t].asked # None
       => /\ SuggestCategory(learned_categories, TokenOf(t)) = tasks[t].asked[1]
          /\ \A u \in DOMAIN tasks :
                (u > t /\ TokenOf(u) = TokenOf(t)) => tasks[u].asked = None

\* C26: no sequence of _ensure_default_categories and record calls changes
\* the class attribute DEFAULT_CATEGORIES: a sorter made later in the same
\* process gets the built-in lists as its defaults.
C26_DefaultsImmutable == DEFAULT_CATEGORIES = DefaultCategoriesTable

\* the path that an entry of the report under category names: "Y/f" is f in
\* the folder Y of the category folder, "f" is f in the category folder
EntryPath(category, entry) == <<category>> \o SplitOn(entry, {"/"}, << >>)

\* C27: for every entry of the report that sort_pdfs returned, under every
\* category, the path that the entry names is the path that sort_pdfs moved
\* a file to.
C27_ReportMatchesFolders ==
  phase = "returned"
    => \A i \in DOMAIN report : \A n \in DOMAIN report[i].data :
          \E t \in DOMAIN tasks :
             /\ tasks[t].outcome = "Moved"
             /\ tasks[t].target = EntryPath(report[i].name, report[i].data[n])

\* s is a prefix of t
IsPrefix(s, t) == Len(s) <= Len(t) /\ SubSeq(t, 1, Len(s)) = s

\* a call of _update_category_knowledge has just ended: a direct one, or the
\* one made for the operator's answer in sort_pdfs; and its category
RecordMade == RecordStep \/ (FileStep /\ Last(tasks').asked # None)
RecordedCategory == IF RecordStep THEN Last(calls')[1] ELSE Last(tasks').asked[1]

\* C28: a call of _update_category_knowledge keeps every category that was
\* in the store, with its created_at, and with its list of types as a prefix
\* of its list after the call; the records of all categories but the one
\* named in the call are as they were.
C28_RecordOnlyAdds ==
  [][RecordMade
       => \A i \in DOMAIN learned_categories :
             LET name == learned_categories[i].name
                 old == learned_categories[i].data
             IN /\ Has(learned_categories', name)
                /\ Get(learned_categories', name).created_at = old.created_at
                /\ IsPrefix(old.document_types,
                            Get(learned_categories', name).document_types)
                /\ name # RecordedCategory
                     => Get(learned_categories', name) = old]_vars

\* a type was added at the end of the list of a category that was in the
\* store with types, and the category has the created_at it had
C28_TypeAppended ==
  \E r \in Recorded :
     /\ Has(learned_categories, r[1])
     /\ Len(Get(learned_categories, r[1]).document_types) > 1
     /\ Last(Get(learned_categories, r[1]).document_types) = r[2]
     /\ Get(learned_categories, r[1]).created_at # Now
====
